---- MODULE Spec2Model ----
(***************************************************************************)
(* A model of the camera-validation heuristics and of the object loaders   *)
(* of the BlenderProc-based render tool.                                   *)
(*                                                                         *)
(*   blenderproc/python/camera/CameraValidation.py                         *)
(*       perform_obstacle_in_view_check, visible_objects,                  *)
(*       scene_coverage_score, decrease_interest_score                     *)
(*   blenderproc/python/loader/ObjectLoader.py      load_obj               *)
(*   blenderproc/python/loader/Front3DLoader.py     load_front3d           *)
(*   RenderTool/main_3DFront.py                     the loop over the      *)
(*       camera poses, add_a_new_light, get_fit_light_intensity            *)
(*   blenderproc/python/types/MaterialUtility.py    make_emissive,         *)
(*       remove_emissive                                                   *)
(*                                                                         *)
(* Every function is a small state machine: fn names the function that is  *)
(* running and pc its position.  The host's ray casts are inputs: what a   *)
(* grid ray meets in the scene is chosen when the ray is cast, and met     *)
(* records it.  Distances and thresholds are integers; averages and        *)
(* percentages are compared by cross-multiplication, so the rounding of    *)
(* floating point is not modelled.                                         *)
(***************************************************************************)
EXTENDS Integers, Sequences, FiniteSets, TLC

VARIABLES
    fn,                   \* the function under execution
    pc,                   \* its position
    result,               \* the returned value, or the name of the exception raised
    \* the ray grid of the three grid functions
    sqrt_number_of_rays,
    x, y,                 \* loop indices of the grid
    rays_cast,            \* number of grid rays cast so far
    met,                  \* histogram of what the rays cast so far met in the scene
    \* perform_obstacle_in_view_check
    proximity_checks,     \* the dictionary argument
    validated,            \* operators the validation loop has visited
    range_distance,       \* the ray range chosen from the operators
    no_range_distance,
    sum_value, sum_sq,
    \* visible_objects
    visible_objects_set,
    \* scene_coverage_score
    special_objects,
    special_objects_dont_want,
    is_this_room,         \* cur_ceils.position_is_above_object(hit_position, ...)
    center_hit,           \* whether the central ray hit anything
    distance_center_camera,
    objects_hit,
    \* decrease_interest_score and the loop that feeds it its own score
    interest_score,
    min_interest_score,
    interest_score_step,
    score_in,             \* the score the last call was given
    calls,                \* number of calls made
    \* load_obj
    cached_objects,       \* the dictionary the callers share
    next_object,          \* the objects of the scene are 1 .. next_object - 1
    imports,              \* per file, how often an importer of the host read it
    last_call,            \* the arguments and the outcome of the last call
    loads,                \* number of calls made
    \* load_front3d
    json_path,
    future_model_path,
    data,                 \* the content of the json file
    created_objects,      \* number of objects created in the scene
    \* main_3DFront: the loop over the camera poses
    camera_info,          \* the poses of the camera file, each with what the scene holds there
    pose,                 \* the loop index i
    lights,               \* len(lights) of the current pose
    new_light,            \* what add_a_new_light returned for the current pose
    rendered,             \* the calls of render and of write_hdf5 made so far
    \* add_a_new_light
    tries,                \* the loop index i
    location,             \* the last sample of disk
    no_collision,
    lowered,              \* steps of 0.01 by which location_z lies under its first value
    intersections,          \* the calls of check_intersections made and what they reported
    light_at,             \* where new_obj stands
    \* Material.make_emissive and Material.remove_emissive
    nodes,                \* the nodes of the material's tree
    links,                \* its links
    next_node,            \* the nodes created so far are 1 .. next_node - 1
    before,               \* the material as it was before the last make_emissive
    history               \* the methods called so far

gridVars == <<sqrt_number_of_rays, x, y, rays_cast, met>>
obstacleVars == <<proximity_checks, validated, range_distance, no_range_distance,
                  sum_value, sum_sq>>
visibleVars == <<visible_objects_set>>
coverageVars == <<special_objects, special_objects_dont_want, is_this_room, center_hit,
                  distance_center_camera, objects_hit>>
interestVars == <<interest_score, min_interest_score, interest_score_step, score_in,
                  calls>>
loaderVars == <<cached_objects, next_object, imports, last_call, loads>>
front3dVars == <<json_path, future_model_path, data, created_objects>>
mainVars == <<camera_info, pose, lights, new_light, rendered>>
lightVars == <<tries, location, no_collision, lowered, intersections, light_at>>
materialVars == <<nodes, links, next_node, before, history>>
toolVars == <<mainVars, lightVars, materialVars>>
cameraVars == <<gridVars, obstacleVars, visibleVars, coverageVars, interestVars>>
loadersVars == <<loaderVars, front3dVars>>
vars == <<fn, pc, result, cameraVars, loadersVars, toolVars>>

\* what each function leaves alone
notObstacle == <<visibleVars, coverageVars, interestVars, loadersVars, toolVars>>
notVisible == <<obstacleVars, coverageVars, interestVars, loadersVars, toolVars>>
notCoverage == <<obstacleVars, visibleVars, interestVars, loadersVars, toolVars>>
notInterest == <<gridVars, obstacleVars, visibleVars, coverageVars, loadersVars, toolVars>>
notLoader == <<cameraVars, front3dVars, toolVars>>
notFront3D == <<cameraVars, loaderVars, toolVars>>
notMain == <<cameraVars, loadersVars, lightVars, materialVars>>
notLight == <<cameraVars, loadersVars, mainVars, materialVars>>
notMaterial == <<cameraVars, loadersVars, mainVars, lightVars>>

-----------------------------------------------------------------------------
(* Bounds of the model *)

\* the largest sqrt_number_of_rays tried
MaxSqrtRays == 2
\* the farthest obstacle of the scene
MaxDist == 5
\* the largest interest score, and the largest step, tried
MaxScore == 6
MaxStep == 2
\* the calls of decrease_interest_score that are followed
MaxCalls == 8
\* the calls of load_obj that are followed
MaxLoads == 3
\* the most meshes, and the most pieces of furniture, of a house
MaxMeshes == 2
MaxFurniture == 2

-----------------------------------------------------------------------------
(* Values shared by the functions *)

\* a value that is no number (isinstance(v, numbers.Number) is False)
NotNumber == -1
\* a key that the dictionary does not hold
Absent == -2
\* ray_cast found nothing: dist is None
NoHit == -3
\* sys.float_info.max, larger than every distance of the scene
FloatMax == 1000

IsNumber(v) == v >= 0

NoResult == "none"

SqrtRays == 1..MaxSqrtRays
\* the distance at which a ray meets the scene, NoHit when it meets nothing
SceneDists == 1..MaxDist
RayOutcomes == SceneDists \cup {NoHit}

RECURSIVE SumDist(_, _)
\* sum of d * hist[d] over the distances d of S
SumDist(S, hist) ==
    IF S = {} THEN 0
    ELSE LET d == CHOOSE e \in S : TRUE
         IN d * hist[d] + SumDist(S \ {d}, hist)

RECURSIVE SumSqDist(_, _)
\* sum of d * d * hist[d] over the distances d of S
SumSqDist(S, hist) ==
    IF S = {} THEN 0
    ELSE LET d == CHOOSE e \in S : TRUE
         IN d * d * hist[d] + SumSqDist(S \ {d}, hist)

-----------------------------------------------------------------------------
(* perform_obstacle_in_view_check *)

Operators == {"min", "max", "avg", "var", "no_background"}

\* thresholds a caller may pass for "min" and "max"
MinChoices == {Absent, NotNumber, 2}
MaxChoices == {Absent, NotNumber, 3}
\* intervals a caller may pass for "avg" and "var"; present = FALSE: no such key
NoInterval == [present |-> FALSE, min |-> Absent, max |-> Absent]
AvgChoices == {NoInterval,
               [present |-> TRUE, min |-> 1, max |-> 3],
               [present |-> TRUE, min |-> Absent, max |-> 3],
               [present |-> TRUE, min |-> 1, max |-> NotNumber]}
VarChoices == {NoInterval,
               [present |-> TRUE, min |-> 0, max |-> 2],
               [present |-> TRUE, min |-> 0, max |-> Absent],
               [present |-> TRUE, min |-> NotNumber, max |-> 2]}
BackgroundChoices == {"absent", "True", "False"}

ProximityChecks ==
    [min : MinChoices, max : MaxChoices, avg : AvgChoices, var : VarChoices,
     no_background : BackgroundChoices]

\* operator in proximity_checks
Has(checks, operator) ==
    CASE operator = "min" -> checks.min # Absent
      [] operator = "max" -> checks.max # Absent
      [] operator = "avg" -> checks.avg.present
      [] operator = "var" -> checks.var.present
      [] operator = "no_background" -> checks.no_background # "absent"

Keys(checks) == {op \in Operators : Has(checks, op)}

\* "no_background" in proximity_checks and proximity_checks["no_background"]
NoBackground(checks) == checks.no_background = "True"

\* ValidationError with the two exceptions exchanged
ValidationErrorSwapped(checks, operator) ==
    IF operator \in {"min", "max"} /\ ~IsNumber(checks[operator])
    THEN "ValueError"
    ELSE IF operator \in {"avg", "var"}
         THEN IF checks[operator].min = Absent \/ checks[operator].max = Absent
              THEN "RuntimeError"
              ELSE IF ~IsNumber(checks[operator].min) \/ ~IsNumber(checks[operator].max)
                   THEN "RuntimeError"
                   ELSE "ok"
         ELSE "ok"

\* the body of the validation loop for one operator: the exception it raises, or "ok"
ValidationError(checks, operator) ==
    IF operator \in {"min", "max"} /\ ~IsNumber(checks[operator])
    THEN "RuntimeError"
    ELSE IF operator \in {"avg", "var"}
         THEN IF checks[operator].min = Absent \/ checks[operator].max = Absent
              THEN "RuntimeError"
              ELSE IF ~IsNumber(checks[operator].min) \/ ~IsNumber(checks[operator].max)
                   THEN "ValueError"
                   ELSE "ok"
         ELSE "ok"

\* BVHTree.ray_cast(position, direction, distance): the hit within the distance
RayCast(obstacle, distance) ==
    IF obstacle # NoHit /\ obstacle <= distance THEN obstacle ELSE NoHit

EmptyHistogram(outcomes) == [o \in outcomes |-> 0]

Return(value) ==
    /\ pc' = "returned"
    /\ result' = value

Raise(exception) ==
    /\ pc' = "raised"
    /\ result' = exception

Continue(position) ==
    /\ pc' = position
    /\ result' = result

\* the loop header of the grid: the indices after the ray (i, j) of an n x n grid
NextX(n, i, j) == IF j + 1 = n THEN i + 1 ELSE i
NextY(n, i, j) == IF j + 1 = n THEN 0 ELSE j + 1

\* the state of a function that is not running
GridIdle ==
    /\ sqrt_number_of_rays = 1
    /\ x = 0 /\ y = 0 /\ rays_cast = 0
    /\ met = <<>>

ObstacleIdle ==
    /\ proximity_checks = [min |-> Absent, max |-> Absent, avg |-> NoInterval,
                           var |-> NoInterval, no_background |-> "absent"]
    /\ validated = {}
    /\ range_distance = FloatMax
    /\ no_range_distance = FALSE
    /\ sum_value = 0
    /\ sum_sq = 0

VisibleIdle == visible_objects_set = {}

CoverageIdle ==
    /\ special_objects = [none |-> TRUE, items |-> <<>>]
    /\ special_objects_dont_want = [none |-> TRUE, items |-> <<>>]
    /\ is_this_room = FALSE
    /\ center_hit = FALSE
    /\ distance_center_camera = 0
    /\ objects_hit = <<>>

InterestIdle ==
    /\ interest_score = 0
    /\ min_interest_score = 0
    /\ interest_score_step = 0
    /\ score_in = 0
    /\ calls = 0

LoaderIdle ==
    /\ cached_objects = <<>>
    /\ next_object = 1
    /\ imports = <<>>
    /\ last_call = <<>>
    /\ loads = 0

Front3DIdle ==
    /\ json_path = ""
    /\ future_model_path = ""
    /\ data = ""
    /\ created_objects = 0

CameraIdle == GridIdle /\ ObstacleIdle /\ VisibleIdle /\ CoverageIdle /\ InterestIdle
LoadersIdle == LoaderIdle /\ Front3DIdle

\* no sample of disk yet
NoLocation == [frustum |-> FALSE, above |-> FALSE, free |-> FALSE]
\* new_obj stands nowhere yet
NoLight == [where |-> NoLocation, z |-> 0]
\* no material remembered
NoMaterial == [nodes |-> {}, links |-> {}]

MainIdle ==
    /\ camera_info = <<>>
    /\ pose = 0
    /\ lights = 0
    /\ new_light = "none"
    /\ rendered = <<>>

LightIdle ==
    /\ tries = 0
    /\ location = NoLocation
    /\ no_collision = FALSE
    /\ lowered = 0
    /\ intersections = {}
    /\ light_at = NoLight

MaterialIdle ==
    /\ nodes = {}
    /\ links = {}
    /\ next_node = 1
    /\ before = NoMaterial
    /\ history = <<>>

ToolIdle == MainIdle /\ LightIdle /\ MaterialIdle

InitObstacle ==
    /\ fn = "perform_obstacle_in_view_check"
    /\ pc = "start"
    /\ result = NoResult
    /\ sqrt_number_of_rays \in SqrtRays
    /\ x = 0 /\ y = 0 /\ rays_cast = 0
    /\ met = EmptyHistogram(RayOutcomes)
    /\ proximity_checks \in ProximityChecks
    /\ validated = {}
    /\ range_distance = FloatMax
    /\ no_range_distance = FALSE
    /\ sum_value = 0
    /\ sum_sq = 0
    /\ VisibleIdle /\ CoverageIdle /\ InterestIdle /\ LoadersIdle /\ ToolIdle

\* lines 33-34: an empty dictionary accepts every pose
ObstacleEnter ==
    /\ fn = "perform_obstacle_in_view_check"
    /\ pc = "start"
    /\ IF Keys(proximity_checks) = {}
       THEN Return("True")
       ELSE Continue("validate")
    /\ UNCHANGED <<fn, gridVars, obstacleVars, notObstacle>>

\* lines 55-64: one iteration of the validation loop; the dictionary decides the
\* order, so any operator not yet visited may be the next
ValidateOperator ==
    /\ fn = "perform_obstacle_in_view_check"
    /\ pc = "validate"
    /\ \E operator \in Keys(proximity_checks) \ validated :
          /\ validated' = validated \cup {operator}
          /\ IF ValidationError(proximity_checks, operator) # "ok"
             THEN Raise(ValidationError(proximity_checks, operator))
             ELSE Continue("validate")
    /\ UNCHANGED <<fn, gridVars, proximity_checks, range_distance, no_range_distance,
                   sum_value, sum_sq, notObstacle>>

\* lines 66-72: the ray range: the exception it raises, or "ok"
RangeDistanceError(checks) ==
    IF ~Has(checks, "avg") /\ ~Has(checks, "var") /\ ~Has(checks, "max")
       /\ ~Has(checks, "min")
    THEN "KeyError"    \* proximity_checks["min"] of a dictionary without "min"
    ELSE "ok"

\* lines 52, 66-72: the ray range the operators allow
RangeDistance(checks) ==
    IF ~Has(checks, "avg") /\ ~Has(checks, "var")
    THEN IF Has(checks, "max") THEN checks.max + 1 ELSE checks.min
    ELSE FloatMax

\* lines 66-77: the ray range, once the validation loop is over
ObstacleRangeDistance ==
    /\ fn = "perform_obstacle_in_view_check"
    /\ pc = "validate"
    /\ validated = Keys(proximity_checks)
    /\ IF RangeDistanceError(proximity_checks) # "ok"
       THEN /\ Raise(RangeDistanceError(proximity_checks))
            /\ UNCHANGED <<range_distance, no_range_distance>>
       ELSE /\ range_distance' = RangeDistance(proximity_checks)
            /\ no_range_distance' = NoBackground(proximity_checks)
            /\ Continue("loop")
    /\ UNCHANGED <<fn, gridVars, proximity_checks, validated, sum_value, sum_sq,
                   notObstacle>>

\* lines 84-104: one ray of the grid, meeting the given obstacle of the scene
ObstacleRay(obstacle) ==
    LET n == sqrt_number_of_rays
        dist == IF no_range_distance THEN RayCast(obstacle, FloatMax)
                ELSE RayCast(obstacle, range_distance)
        advance == /\ x' = NextX(n, x, y)
                   /\ y' = NextY(n, x, y)
                   /\ Continue(IF NextX(n, x, y) = n THEN "final" ELSE "loop")
    IN  IF n - 1 = 0
        THEN \* x / float(sqrt_number_of_rays - 1)
             /\ Raise("ZeroDivisionError")
             /\ UNCHANGED <<x, y, rays_cast, sum_value, sum_sq, met>>
        ELSE /\ rays_cast' = rays_cast + 1
             /\ met' = [met EXCEPT ![obstacle] = @ + 1]
             /\ IF dist # NoHit
                THEN IF Has(proximity_checks, "min") /\ dist <= proximity_checks.min
                     THEN Return("False") /\ UNCHANGED <<x, y, sum_value, sum_sq>>
                     ELSE IF Has(proximity_checks, "max") /\ dist >= proximity_checks.max
                          THEN Return("False") /\ UNCHANGED <<x, y, sum_value, sum_sq>>
                          ELSE /\ sum_value' = IF Has(proximity_checks, "avg")
                                                  \/ Has(proximity_checks, "var")
                                               THEN sum_value + dist ELSE sum_value
                               /\ sum_sq' = IF Has(proximity_checks, "var")
                                            THEN sum_sq + dist * dist ELSE sum_sq
                               /\ advance
                ELSE IF NoBackground(proximity_checks)
                     THEN Return("False") /\ UNCHANGED <<x, y, sum_value, sum_sq>>
                     ELSE advance /\ UNCHANGED <<sum_value, sum_sq>>

\* lines 81-104: the grid loop, a ray at a time
ObstacleCastRay ==
    /\ fn = "perform_obstacle_in_view_check"
    /\ pc = "loop"
    /\ \E obstacle \in RayOutcomes : ObstacleRay(obstacle)
    /\ UNCHANGED <<fn, sqrt_number_of_rays, proximity_checks, validated,
                   range_distance, no_range_distance, notObstacle>>

\* avg >= interval.max or avg <= interval.min, avg being sum / count
AvgOutside(sum, count, interval) ==
    sum >= interval.max * count \/ sum <= interval.min * count

\* var >= interval.max or var <= interval.min, var being sq / count - (sum / count)^2
VarOutside(sum, sq, count, interval) ==
    \/ count * sq - sum * sum >= interval.max * count * count
    \/ count * sq - sum * sum <= interval.min * count * count

\* lines 106-124: the checks of the average and of the variance
ObstacleFinal ==
    /\ fn = "perform_obstacle_in_view_check"
    /\ pc = "final"
    /\ LET count == sqrt_number_of_rays * sqrt_number_of_rays
       IN IF Has(proximity_checks, "avg")
             /\ AvgOutside(sum_value, count, proximity_checks.avg)
          THEN Return("False")
          ELSE IF Has(proximity_checks, "var")
                  /\ VarOutside(sum_value, sum_sq, count, proximity_checks.var)
               THEN Return("False")
               ELSE Return("True")
    /\ UNCHANGED <<fn, gridVars, obstacleVars, notObstacle>>

NextObstacle ==
    \/ ObstacleEnter
    \/ ValidateOperator
    \/ ObstacleRangeDistance
    \/ ObstacleCastRay
    \/ ObstacleFinal

SpecObstacle == InitObstacle /\ [][NextObstacle]_vars

-----------------------------------------------------------------------------
(* Claims about perform_obstacle_in_view_check *)

InObstacle == fn = "perform_obstacle_in_view_check"
Terminated == pc \in {"returned", "raised"}

\* the entries of the dictionary as the caller wrote them
BadThreshold(checks) ==
    \E op \in {"min", "max"} : Has(checks, op) /\ ~IsNumber(checks[op])
LacksBound(checks) ==
    \E op \in {"avg", "var"} :
        Has(checks, op) /\ (checks[op].min = Absent \/ checks[op].max = Absent)
BadBound(checks) ==
    \E op \in {"avg", "var"} :
        /\ Has(checks, op)
        /\ checks[op].min # Absent /\ checks[op].max # Absent
        /\ (~IsNumber(checks[op].min) \/ ~IsNumber(checks[op].max))
ValidChecks(checks) == ~BadThreshold(checks) /\ ~LacksBound(checks) /\ ~BadBound(checks)

\* the checks of the claim, read on what the grid rays met in the scene
NumberOfRays == sqrt_number_of_rays * sqrt_number_of_rays
MetDistances == {d \in SceneDists : met[d] > 0}
MinRespected ==
    Has(proximity_checks, "min") => \A d \in MetDistances : ~(d <= proximity_checks.min)
MaxRespected ==
    Has(proximity_checks, "max") => \A d \in MetDistances : ~(d >= proximity_checks.max)
BackgroundRespected == NoBackground(proximity_checks) => met[NoHit] = 0
AvgRespected ==
    Has(proximity_checks, "avg") =>
        /\ proximity_checks.avg.min * NumberOfRays < SumDist(SceneDists, met)
        /\ SumDist(SceneDists, met) < proximity_checks.avg.max * NumberOfRays
VarRespected ==
    Has(proximity_checks, "var") =>
        LET v == NumberOfRays * SumSqDist(SceneDists, met)
                 - SumDist(SceneDists, met) * SumDist(SceneDists, met)
        IN /\ proximity_checks.var.min * NumberOfRays * NumberOfRays < v
           /\ v < proximity_checks.var.max * NumberOfRays * NumberOfRays
NoCheckViolated ==
    MinRespected /\ MaxRespected /\ BackgroundRespected /\ AvgRespected /\ VarRespected

\* C2: for a valid, non-empty proximity_checks, the call returns True if and only if
\* none of the specified checks (min, max, no_background, avg, var) is violated by
\* the obstacles the grid rays meet, whatever other operators the dictionary holds.
C2_Claimed ==
    (InObstacle /\ pc = "returned" /\ Keys(proximity_checks) # {}
     /\ ValidChecks(proximity_checks))
        => (result = "True" <=> NoCheckViolated)

OnlyNoBackground ==
    /\ InObstacle
    /\ Keys(proximity_checks) = {"no_background"}
    /\ NoBackground(proximity_checks)

\* C3: with proximity_checks = {"no_background": True} the call raises no error, and
\* returns True exactly when every grid ray hits some object.
C3_Claimed ==
    OnlyNoBackground =>
        /\ pc # "raised"
        /\ pc = "returned" => (result = "True" <=> met[NoHit] = 0)

\* C4: the dictionary is validated before any ray is cast.  A call given a "min" or
\* "max" that is no number, or an "avg"/"var" entry that lacks "min" or "max", ends
\* in RuntimeError; one given an "avg"/"var" bound that is no number ends in
\* ValueError (with defects of both kinds, the operator visited first decides);
\* no ray is cast in either case, and none is ever cast for an invalid dictionary.
\* An empty dictionary returns True with no operator visited and no ray cast.
C4_ValidatedBeforeRays ==
    InObstacle =>
        /\ rays_cast > 0 => ValidChecks(proximity_checks)
        /\ (Terminated /\ ~ValidChecks(proximity_checks)) =>
              /\ pc = "raised"
              /\ rays_cast = 0
              /\ result \in {"RuntimeError", "ValueError"}
              /\ result = "RuntimeError" =>
                    (BadThreshold(proximity_checks) \/ LacksBound(proximity_checks))
              /\ result = "ValueError" => BadBound(proximity_checks)
        /\ (Terminated /\ Keys(proximity_checks) = {}) =>
              /\ pc = "returned" /\ result = "True"
              /\ rays_cast = 0 /\ validated = {}
        /\ (~ValidChecks(proximity_checks) /\ ~Terminated) => pc \in {"start", "validate"}
        /\ (~ValidChecks(proximity_checks) /\ pc = "validate") =>
              validated # Keys(proximity_checks)

\* a call that the validation loop ended with ValueError, after it had accepted
\* another operator
C4_Witness ==
    /\ InObstacle
    /\ pc = "raised" /\ result = "ValueError"
    /\ Cardinality(validated) > 1
    /\ rays_cast = 0

-----------------------------------------------------------------------------
(* visible_objects *)

\* the objects of the scene a ray may hit; "nothing": hit_object is None
SceneObjects == {"floor", "wall", "sofa", "table"}
Nothing == "nothing"

InitVisible ==
    /\ fn = "visible_objects"
    /\ pc = "loop"
    /\ result = NoResult
    /\ sqrt_number_of_rays \in SqrtRays
    /\ x = 0 /\ y = 0 /\ rays_cast = 0
    /\ met = EmptyHistogram(SceneObjects \cup {Nothing})
    /\ visible_objects_set = {}
    /\ ObstacleIdle /\ CoverageIdle /\ InterestIdle /\ LoadersIdle /\ ToolIdle

\* lines 157-163: one ray of the grid, hitting the given object
VisibleRay(hit_object) ==
    LET n == sqrt_number_of_rays
    IN  IF n - 1 = 0
        THEN \* x / float(sqrt_number_of_rays - 1)
             /\ Raise("ZeroDivisionError")
             /\ UNCHANGED <<x, y, rays_cast, met, visible_objects_set>>
        ELSE /\ rays_cast' = rays_cast + 1
             /\ met' = [met EXCEPT ![hit_object] = @ + 1]
             /\ visible_objects_set' = IF hit_object # Nothing
                                       THEN visible_objects_set \cup {hit_object}
                                       ELSE visible_objects_set
             /\ x' = NextX(n, x, y)
             /\ y' = NextY(n, x, y)
             /\ IF NextX(n, x, y) = n
                THEN Return("visible_objects_set")
                ELSE Continue("loop")

\* lines 154-165: the grid loop, a ray at a time, and the return after the last ray
VisibleCastRay ==
    /\ fn = "visible_objects"
    /\ pc = "loop"
    /\ \E hit_object \in SceneObjects \cup {Nothing} : VisibleRay(hit_object)
    /\ UNCHANGED <<fn, sqrt_number_of_rays, notVisible>>

NextVisible == VisibleCastRay

SpecVisible == InitVisible /\ [][NextVisible]_vars

\* C9: for every sqrt_number_of_rays >= 1 the call casts exactly
\* sqrt_number_of_rays^2 rays and returns exactly the set of the objects that at
\* least one of them hit.
C9_Claimed ==
    (fn = "visible_objects" /\ Terminated) =>
        /\ pc = "returned"
        /\ rays_cast = NumberOfRays
        /\ visible_objects_set = {o \in SceneObjects : met[o] > 0}

-----------------------------------------------------------------------------
(* decrease_interest_score *)

\* decrease_interest_score with < for <=
DecreaseInterestScoreStrict(score, min_score, step) ==
    IF score < min_score
    THEN [ok |-> "False", score |-> score]
    ELSE [ok |-> "True", score |-> score - step]

\* lines 340-342: the pair the function returns
DecreaseInterestScore(score, min_score, step) ==
    IF score <= min_score
    THEN [ok |-> "False", score |-> score]
    ELSE [ok |-> "True", score |-> score - step]

InitInterest ==
    /\ fn = "decrease_interest_score"
    /\ pc = "loop"
    /\ result = NoResult
    /\ interest_score \in 0..MaxScore
    /\ min_interest_score \in 0..MaxScore
    /\ interest_score_step \in -1..MaxStep
    /\ score_in = interest_score
    /\ calls = 0
    /\ GridIdle /\ ObstacleIdle /\ VisibleIdle /\ CoverageIdle /\ LoadersIdle /\ ToolIdle

\* one call, given the score the previous call returned; the caller stops calling
\* once the function has returned False
DecreaseInterestScoreCall ==
    /\ fn = "decrease_interest_score"
    /\ pc = "loop"
    /\ calls < MaxCalls
    /\ LET r == DecreaseInterestScore(interest_score, min_interest_score,
                                      interest_score_step)
       IN /\ score_in' = interest_score
          /\ interest_score' = r.score
          /\ result' = r.ok
          /\ pc' = IF r.ok = "True" THEN "loop" ELSE "returned"
    /\ calls' = calls + 1
    /\ UNCHANGED <<fn, min_interest_score, interest_score_step, notInterest>>

NextInterest == DecreaseInterestScoreCall

\* the caller keeps calling while the function returns True
SpecInterest == InitInterest /\ [][NextInterest]_vars /\ WF_vars(NextInterest)

InInterest == fn = "decrease_interest_score"

-----------------------------------------------------------------------------
(* scene_coverage_score *)

\* lines 317-318: the categories counted as floor
FloorCategories == {19, 29}
\* lines 305-314: the categories counted as wall
WallCategories == {26, 45, 80, 103, 147, 185, 200, 92, 89, 101}
\* line 322: the category added to floor and wall
ExtraCategory == 168
\* categories of the furniture of the scene
SofaCategory == 3
TableCategory == 5
LampCategory == 7

\* The custom properties of the objects a ray may hit: special_dataset is
\* "is_suncg" in o or "is_3d_front" in o; a property that is not set is "absent"
\* or Absent.  id stands for the object itself as a dictionary key.
CoverageObject(name) ==
    CASE name = "floor" ->
            [id |-> 1, special_dataset |-> TRUE, suncg_type |-> "absent",
             future_type |-> "absent", coarse_grained_class |-> Absent,
             category_id |-> 19]
      [] name = "wall" ->
            [id |-> 2, special_dataset |-> TRUE, suncg_type |-> "absent",
             future_type |-> "absent", coarse_grained_class |-> Absent,
             category_id |-> 26]
      [] name = "door" ->
            [id |-> 3, special_dataset |-> TRUE, suncg_type |-> "absent",
             future_type |-> "absent", coarse_grained_class |-> Absent,
             category_id |-> ExtraCategory]
      [] name = "sofa" ->
            [id |-> 4, special_dataset |-> TRUE, suncg_type |-> "absent",
             future_type |-> "Object", coarse_grained_class |-> SofaCategory,
             category_id |-> SofaCategory]
      [] name = "table" ->
            [id |-> 5, special_dataset |-> TRUE, suncg_type |-> "absent",
             future_type |-> "Object", coarse_grained_class |-> TableCategory,
             category_id |-> TableCategory]
      [] name = "lamp" ->
            [id |-> 6, special_dataset |-> TRUE, suncg_type |-> "absent",
             future_type |-> "Object", coarse_grained_class |-> LampCategory,
             category_id |-> LampCategory]
      [] name = "unclassified" ->
            [id |-> 7, special_dataset |-> TRUE, suncg_type |-> "absent",
             future_type |-> "Object", coarse_grained_class |-> Absent,
             category_id |-> SofaCategory]
      [] name = "plain" ->
            [id |-> 8, special_dataset |-> FALSE, suncg_type |-> "absent",
             future_type |-> "absent", coarse_grained_class |-> Absent,
             category_id |-> Absent]

CoverageScene ==
    {"floor", "wall", "door", "sofa", "table", "lamp", "unclassified", "plain"}

\* an object used as a key of objects_hit: no category id equals it
ObjectKeyBase == 1000
ObjectKey(o) == ObjectKeyBase + o.id

\* lines 236-256: the key of objects_hit the hit counts for; Absent: it is not counted
HitKey(o) ==
    IF (o.special_dataset /\ o.suncg_type = "Object")
       \/ (o.special_dataset /\ o.future_type = "Object")
    THEN IF o.coarse_grained_class # Absent THEN o.coarse_grained_class ELSE Absent
    ELSE IF o.category_id # Absent THEN o.category_id ELSE ObjectKey(o)

\* every key objects_hit is read or written with (a defaultdict: 0 when not yet set)
CoverageKeys ==
    FloorCategories \cup WallCategories \cup {ExtraCategory}
    \cup {SofaCategory, TableCategory, LampCategory}
    \cup {ObjectKey(CoverageObject(name)) : name \in CoverageScene}

\* the lists a caller may pass; none: the argument is None
NoList == [none |-> TRUE, items |-> <<>>]
List(items) == [none |-> FALSE, items |-> items]
SpecialChoices ==
    {NoList, List(<<SofaCategory, TableCategory>>),
     List(<<SofaCategory, TableCategory, SofaCategory>>), List(<<SofaCategory>>)}
DontWantChoices == {NoList, List(<<>>), List(<<LampCategory>>)}
\* distances of the camera to the hit point of the central ray
CenterDistances == 0..6

Range(seq) == {seq[i] : i \in DOMAIN seq}

RECURSIVE SumKeys(_, _)
\* sum of hits[k] over the keys k of S
SumKeys(S, hits) ==
    IF S = {} THEN 0
    ELSE LET k == CHOOSE e \in S : TRUE
         IN hits[k] + SumKeys(S \ {k}, hits)

InitCoverage ==
    /\ fn = "scene_coverage_score"
    /\ pc = "start"
    /\ result = NoResult
    /\ sqrt_number_of_rays \in SqrtRays
    /\ x = 0 /\ y = 0 /\ rays_cast = 0
    /\ met = EmptyHistogram(CoverageScene \cup {Nothing})
    /\ special_objects \in SpecialChoices
    /\ special_objects_dont_want \in DontWantChoices
    /\ is_this_room \in BOOLEAN
    /\ center_hit \in BOOLEAN
    /\ distance_center_camera \in CenterDistances
    /\ objects_hit = [k \in CoverageKeys |-> 0]
    /\ ObstacleIdle /\ VisibleIdle /\ InterestIdle /\ LoadersIdle /\ ToolIdle

\* lines 189-190, 209-224: the central ray, cast before the grid
CoverageCenter ==
    /\ fn = "scene_coverage_score"
    /\ pc = "start"
    /\ special_objects' = IF special_objects.none THEN List(<<>>) ELSE special_objects
    /\ IF ~is_this_room
       THEN Return("False")
       ELSE IF distance_center_camera >= 5 \/ distance_center_camera <= 1
            THEN Return("False")
            ELSE Continue("loop")
    /\ UNCHANGED <<fn, gridVars, special_objects_dont_want, is_this_room, center_hit,
                   distance_center_camera, objects_hit, notCoverage>>

\* the ray (i, j) of the grid is the central ray: x / (n - 1) = y / (n - 1) = 0.5
IsCentralRay(n, i, j) == 2 * i = n - 1 /\ 2 * j = n - 1

\* lines 230-256: one ray of the grid, hitting the given object of the scene
CoverageRay(name) ==
    LET n == sqrt_number_of_rays
        key == IF name = Nothing THEN Absent ELSE HitKey(CoverageObject(name))
    IN  IF n - 1 = 0
        THEN \* x / float(sqrt_number_of_rays - 1)
             /\ Raise("ZeroDivisionError")
             /\ UNCHANGED <<x, y, rays_cast, met, objects_hit>>
        ELSE /\ IsCentralRay(n, x, y) => (center_hit <=> name # Nothing)
             /\ rays_cast' = rays_cast + 1
             /\ met' = [met EXCEPT ![name] = @ + 1]
             /\ objects_hit' = IF key # Absent
                               THEN [objects_hit EXCEPT ![key] = @ + 1]
                               ELSE objects_hit
             /\ x' = NextX(n, x, y)
             /\ y' = NextY(n, x, y)
             /\ Continue(IF NextX(n, x, y) = n THEN "score" ELSE "loop")

\* lines 227-256: the grid loop, a ray at a time
CoverageCastRay ==
    /\ fn = "scene_coverage_score"
    /\ pc = "loop"
    /\ \E name \in CoverageScene \cup {Nothing} : CoverageRay(name)
    /\ UNCHANGED <<fn, sqrt_number_of_rays, special_objects, special_objects_dont_want,
                   is_this_room, center_hit, distance_center_camera, notCoverage>>

\* lines 263-329: the thresholds on the counts: "True", "False", or the exception
CoverageScore(hits, total, special, dont_want) ==
    LET count_no_bg == SumKeys(DOMAIN hits, hits)
        count_dont_want == SumKeys(Range(dont_want.items), hits)
        wanted == Range(special.items)
        count_category == Cardinality({e \in wanted : 100 * hits[e] > 5 * total})
        count_want == SumKeys(wanted, hits)
        count_wall == SumKeys(WallCategories, hits)
        count_floor == SumKeys(FloorCategories, hits)
        count_total == count_floor + count_wall + hits[ExtraCategory]
    IN  IF 100 * count_no_bg < 99 * total THEN "False"
        ELSE IF dont_want.none THEN "TypeError"    \* list(set(None))
        ELSE IF count_dont_want # 0 THEN "False"
        ELSE IF \E e \in wanted : 100 * hits[e] > 25 * total THEN "False"
        ELSE IF 100 * count_want < 15 * total THEN "False"
        ELSE IF /\ 100 * count_total > 20 * total
                /\ 100 * count_total < 65 * total
                /\ 100 * count_floor > 10 * total
                /\ count_category >= 2
             THEN "True"
             ELSE "False"

\* lines 263-329: the score of the pose, once every ray is cast
CoverageDecide ==
    /\ fn = "scene_coverage_score"
    /\ pc = "score"
    /\ LET score == CoverageScore(objects_hit, sqrt_number_of_rays * sqrt_number_of_rays,
                                  special_objects, special_objects_dont_want)
       IN IF score \in {"True", "False"} THEN Return(score) ELSE Raise(score)
    /\ UNCHANGED <<fn, gridVars, coverageVars, notCoverage>>

NextCoverage ==
    \/ CoverageCenter
    \/ CoverageCastRay
    \/ CoverageDecide

SpecCoverage == InitCoverage /\ [][NextCoverage]_vars

InCoverage == fn = "scene_coverage_score"

RECURSIVE SumMet(_)
\* number of the rays cast so far that met one of the given objects
SumMet(names) ==
    IF names = {} THEN 0
    ELSE LET name == CHOOSE e \in names : TRUE
         IN met[name] + SumMet(names \ {name})

\* number of the rays that hit an object counted for one of the given categories
RaysOn(categories) ==
    SumMet({name \in CoverageScene : HitKey(CoverageObject(name)) \in categories})
\* number of the rays that hit a counted object
RaysCounted ==
    SumMet({name \in CoverageScene : HitKey(CoverageObject(name)) # Absent})

Wanted == Range(special_objects.items)
DontWanted == Range(special_objects_dont_want.items)

\* the conditions of the claim, read on what the rays met in the scene
CoverageConditions ==
    /\ is_this_room
    /\ 1 < distance_center_camera /\ distance_center_camera < 5
    /\ 100 * RaysCounted >= 99 * NumberOfRays
    /\ RaysOn(DontWanted) = 0
    /\ \A c \in Wanted : ~(100 * RaysOn({c}) > 25 * NumberOfRays)
    /\ 100 * RaysOn(Wanted) >= 15 * NumberOfRays
    /\ Cardinality({c \in Wanted : 100 * RaysOn({c}) > 5 * NumberOfRays}) >= 2
    /\ 100 * RaysOn(FloorCategories) > 10 * NumberOfRays
    /\ 100 * RaysOn(FloorCategories \cup WallCategories \cup {ExtraCategory})
          > 20 * NumberOfRays
    /\ 100 * RaysOn(FloorCategories \cup WallCategories \cup {ExtraCategory})
          < 65 * NumberOfRays

\* C1: scene_coverage_score returns True exactly when the central hit lies under the
\* ceiling at a distance strictly between 1 and 5, at least 99% of the grid rays hit
\* a counted object, none hits an unwanted category, no wanted category gets more
\* than 25%, the wanted categories get at least 15% together, at least two of them
\* get more than 5% each, the floor gets more than 10%, and floor, wall and
\* category 168 get strictly between 20% and 65%; it returns False otherwise.
C1_Claimed ==
    (InCoverage /\ Terminated) =>
        /\ pc = "returned"
        /\ result = "True" <=> CoverageConditions

\* whenever scene_coverage_score does return, it returns True exactly under the
\* conditions of C1
CoverageReturnValue ==
    (InCoverage /\ pc = "returned") => (result = "True" <=> CoverageConditions)

\* a pose that is accepted
CoverageAccepted == InCoverage /\ pc = "returned" /\ result = "True"

-----------------------------------------------------------------------------
(* load_obj *)

File(stem, suffix) == [stem |-> stem, suffix |-> suffix]

\* the files on the disk, and a path that names no file
Disk == {File("chair", ".obj"), File("scan", ".ply"), File("room", ".dae"),
         File("part", ".STL"), File("lamp", ".glb")}
Paths == Disk \cup {File("gone", ".obj")}

\* os.path.exists(filepath)
Exists(filepath) == filepath \in Disk

\* number of objects the host selects after importing the file
ObjectsIn(filepath) == IF filepath.stem = "chair" THEN 2 ELSE 1

\* the suffix of filepath.lower()
LowerSuffix(filepath) ==
    CASE filepath.suffix = ".STL" -> ".stl"
      [] filepath.suffix = ".GLB" -> ".glb"
      [] filepath.suffix = ".OBJ" -> ".obj"
      [] OTHER -> filepath.suffix

\* lines 39-69: the operator of the host that reads the file
Importer(filepath, use_legacy_obj_import) ==
    IF filepath.suffix = ".obj"
    THEN IF use_legacy_obj_import THEN "import_scene.obj" ELSE "wm.obj_import"
    ELSE IF filepath.suffix = ".ply" THEN "import_mesh.ply"
    ELSE IF filepath.suffix = ".dae" THEN "wm.collada_import"
    ELSE IF LowerSuffix(filepath) = ".stl" THEN "import_mesh.stl"
    ELSE IF LowerSuffix(filepath) = ".glb" THEN "import_scene.gltf"
    ELSE "none"

\* the objects first .. first + count - 1, in a list
NewObjects(first, count) == [i \in 1..count |-> first + i - 1]

\* lines 37-93: a call without a dictionary, of a file that exists: the importer
\* used, the value returned and the next free object.  A .glb file returns the copy
\* of its first mesh, a MeshObject and not a list.
ImportFile(filepath, use_legacy_obj_import, first) ==
    LET importer == Importer(filepath, use_legacy_obj_import)
        count == IF importer = "none" THEN 0 ELSE ObjectsIn(filepath)
    IN  IF importer = "import_scene.gltf"
        THEN [importer |-> importer, kind |-> "MeshObject",
              objs |-> <<first + count>>, next |-> first + count + 1]
        ELSE [importer |-> importer, kind |-> "list",
              objs |-> NewObjects(first, count), next |-> first + count]

NotCached == [cached |-> FALSE, kind |-> "none", objs |-> <<>>]
NoCall == [filepath |-> File("", ""), use_cache |-> FALSE, use_legacy_obj_import |-> FALSE,
           outcome |-> "none", kind |-> "none", objs |-> <<>>, importer |-> "none",
           was_cached |-> FALSE, duplicated |-> <<>>, cache_unchanged |-> TRUE,
           first_free |-> 1, all_shared |-> TRUE]

InitLoader ==
    /\ fn = "load_obj"
    /\ pc = "ready"
    /\ result = NoResult
    /\ cached_objects = [f \in Paths |-> NotCached]
    /\ next_object = 1
    /\ imports = [f \in Paths |-> 0]
    /\ last_call = NoCall
    /\ loads = 0
    /\ CameraIdle /\ Front3DIdle /\ ToolIdle

\* lines 26-94: one call of load_obj; use_cache: the shared dictionary is passed as
\* cached_objects, otherwise cached_objects is None
LoadObj(filepath, use_cache, use_legacy_obj_import) ==
    LET call == [filepath |-> filepath, use_cache |-> use_cache,
                 use_legacy_obj_import |-> use_legacy_obj_import,
                 outcome |-> "returned", kind |-> "list", objs |-> <<>>,
                 importer |-> "none",
                 was_cached |-> cached_objects[filepath].cached,
                 duplicated |-> <<>>, cache_unchanged |-> TRUE,
                 first_free |-> next_object,
                 all_shared |-> last_call.all_shared /\ use_cache]
        entry == cached_objects[filepath]
        \* line 34: the nested call is not given use_legacy_obj_import
        nested == ImportFile(filepath, FALSE, next_object)
        direct == ImportFile(filepath, use_legacy_obj_import, next_object)
    IN  IF ~Exists(filepath)
        THEN /\ last_call' = [call EXCEPT !.outcome = "FileNotFoundError", !.kind = "none"]
             /\ UNCHANGED <<cached_objects, next_object, imports>>
        ELSE IF use_cache
        THEN IF entry.cached
             THEN IF entry.kind = "list"
                  THEN \* lines 29-33: a duplicate of every cached object
                       /\ last_call' = [call EXCEPT
                              !.objs = NewObjects(next_object, Len(entry.objs)),
                              !.duplicated = entry.objs]
                       /\ next_object' = next_object + Len(entry.objs)
                       /\ UNCHANGED <<cached_objects, imports>>
                  ELSE \* line 30: for obj in a MeshObject
                       /\ last_call' = [call EXCEPT !.outcome = "TypeError",
                                                    !.kind = "none"]
                       /\ UNCHANGED <<cached_objects, next_object, imports>>
             ELSE \* lines 34-36
                  /\ cached_objects' = [cached_objects EXCEPT ![filepath] =
                        [cached |-> TRUE, kind |-> nested.kind, objs |-> nested.objs]]
                  /\ next_object' = nested.next
                  /\ imports' = IF nested.importer = "none" THEN imports
                                ELSE [imports EXCEPT ![filepath] = @ + 1]
                  /\ last_call' = [call EXCEPT !.kind = nested.kind,
                                               !.objs = nested.objs,
                                               !.importer = nested.importer,
                                               !.cache_unchanged = FALSE]
        ELSE \* lines 37-93
             /\ next_object' = direct.next
             /\ imports' = IF direct.importer = "none" THEN imports
                           ELSE [imports EXCEPT ![filepath] = @ + 1]
             /\ last_call' = [call EXCEPT !.kind = direct.kind, !.objs = direct.objs,
                                          !.importer = direct.importer]
             /\ UNCHANGED cached_objects

\* the callers: any file, with or without the shared dictionary
LoadObjCall ==
    /\ fn = "load_obj"
    /\ loads < MaxLoads
    /\ \E filepath \in Paths, use_cache \in BOOLEAN, use_legacy_obj_import \in BOOLEAN :
          LoadObj(filepath, use_cache, use_legacy_obj_import)
    /\ loads' = loads + 1
    /\ UNCHANGED <<fn, pc, result, notLoader>>

NextLoader == LoadObjCall

SpecLoader == InitLoader /\ [][NextLoader]_vars

InLoader == fn = "load_obj"

\* C5: for every supported file type (.obj, .ply, .dae, .stl, .glb) the value that
\* load_obj returns is a list of the loaded mesh objects.
C5_Claimed ==
    (InLoader /\ last_call.outcome = "returned") => last_call.kind = "list"

\* C6: when every call shares the dictionary, each existing file is imported at most
\* once: the first call of a file imports it and stores what it loaded, and every
\* later call of that file imports nothing, returns a fresh duplicate of each cached
\* object and leaves the dictionary unchanged.
C6_Claimed ==
    (InLoader /\ last_call.all_shared /\ loads > 0 /\ Exists(last_call.filepath)) =>
        /\ \A f \in Paths : imports[f] <= 1
        /\ IF last_call.was_cached
           THEN /\ last_call.outcome = "returned"
                /\ last_call.importer = "none"
                /\ last_call.kind = "list"
                /\ last_call.duplicated = cached_objects[last_call.filepath].objs
                /\ Len(last_call.objs) = Len(last_call.duplicated)
                /\ \A i \in DOMAIN last_call.objs :
                       last_call.objs[i] >= last_call.first_free
                /\ last_call.cache_unchanged
           ELSE /\ last_call.outcome = "returned"
                /\ last_call.importer # "none"
                /\ cached_objects[last_call.filepath].cached
                /\ cached_objects[last_call.filepath].objs = last_call.objs

\* C7: a call with use_legacy_obj_import=True that imports an .obj file uses the
\* legacy importer, also when it is given a dictionary that does not hold the file.
C7_Claimed ==
    (InLoader /\ last_call.use_legacy_obj_import
     /\ last_call.filepath.suffix = ".obj" /\ last_call.importer # "none")
        => last_call.importer = "import_scene.obj"

-----------------------------------------------------------------------------
(* load_front3d *)

\* the paths a caller may pass, after resolve_path
JsonPaths == {File("house", ".json"), File("house", ".txt"), File("nohouse", ".json")}
FutureModelPaths == {"3D-FUTURE-model", "no-such-folder"}
\* os.path.exists(json_path)
JsonExists(path) == path \in {File("house", ".json"), File("house", ".txt")}
\* os.path.exists(future_model_path)
FolderExists(path) == path = "3D-FUTURE-model"

\* What a file holds: text that is no json (valid = FALSE), or a house with or
\* without the "scene" key, with its meshes and its furniture.
NoJson == [valid |-> FALSE, has_scene |-> FALSE, meshes |-> 0, furniture |-> 0]
Houses == [valid : {TRUE}, has_scene : BOOLEAN, meshes : 0..MaxMeshes,
           furniture : 0..MaxFurniture]

\* load_front3d without the check of the "scene" key
Front3DInputErrorNoScene(path, model_path, content) ==
    IF ~JsonExists(path) THEN "FileNotFoundError"
    ELSE IF path.suffix # ".json" THEN "FileNotFoundError"
    ELSE IF ~FolderExists(model_path) THEN "FileNotFoundError"
    ELSE IF ~content.valid THEN "JSONDecodeError"
    ELSE "ok"

\* lines 44-56: the exception the checks of the input raise, or "ok"
Front3DInputError(path, model_path, content) ==
    IF ~JsonExists(path) THEN "FileNotFoundError"
    ELSE IF path.suffix # ".json" THEN "FileNotFoundError"
    ELSE IF ~FolderExists(model_path) THEN "FileNotFoundError"
    ELSE IF ~content.valid THEN "JSONDecodeError"    \* json.load
    ELSE IF ~content.has_scene THEN "ValueError"
    ELSE "ok"

InitFront3D ==
    /\ fn = "load_front3d"
    /\ pc = "start"
    /\ result = NoResult
    /\ json_path \in JsonPaths
    /\ future_model_path \in FutureModelPaths
    /\ data \in IF JsonExists(json_path) THEN Houses \cup {NoJson} ELSE {NoJson}
    /\ created_objects = 0
    /\ CameraIdle /\ LoaderIdle /\ ToolIdle

\* lines 40-56: the checks of the paths and of the parsed file
Front3DCheckInput ==
    /\ fn = "load_front3d"
    /\ pc = "start"
    /\ IF Front3DInputError(json_path, future_model_path, data) # "ok"
       THEN Raise(Front3DInputError(json_path, future_model_path, data))
       ELSE Continue("create_mesh_objects")
    /\ UNCHANGED <<fn, front3dVars, notFront3D>>

\* lines 60-61, 148-374: an object for every mesh of the file
Front3DCreateMeshObjects ==
    /\ fn = "load_front3d"
    /\ pc = "create_mesh_objects"
    /\ created_objects' = created_objects + data.meshes
    /\ Continue("load_furniture")
    /\ UNCHANGED <<fn, json_path, future_model_path, data, notFront3D>>

\* lines 63-64, 377-522: the objects of the furniture of the file; a model that is
\* not on the disk is skipped
Front3DLoadFurniture ==
    /\ fn = "load_front3d"
    /\ pc = "load_furniture"
    /\ \E loaded \in 0..data.furniture : created_objects' = created_objects + loaded
    /\ Continue("move_and_duplicate")
    /\ UNCHANGED <<fn, json_path, future_model_path, data, notFront3D>>

\* lines 69-75: the furniture is placed and the objects are returned
Front3DMoveAndReturn ==
    /\ fn = "load_front3d"
    /\ pc = "move_and_duplicate"
    /\ \E placed \in 0..data.furniture : created_objects' = created_objects + placed
    /\ Return("created_objects")
    /\ UNCHANGED <<fn, json_path, future_model_path, data, notFront3D>>

NextFront3D ==
    \/ Front3DCheckInput
    \/ Front3DCreateMeshObjects
    \/ Front3DLoadFurniture
    \/ Front3DMoveAndReturn

SpecFront3D == InitFront3D /\ [][NextFront3D]_vars

InFront3D == fn = "load_front3d"

\* the input is one the claim calls bad
BadPaths ==
    \/ ~JsonExists(json_path)
    \/ json_path.suffix # ".json"
    \/ ~FolderExists(future_model_path)
NoSceneKey == ~BadPaths /\ data.valid /\ ~data.has_scene

\* C8: load_front3d rejects bad input before it creates any object: a json_path that
\* does not exist or does not end in .json, or a future_model_path that does not
\* exist, ends the call in FileNotFoundError, and a parsed file without the "scene"
\* key in ValueError; no object is ever created for such an input.
C8_RejectsBadInput ==
    InFront3D =>
        /\ (BadPaths \/ NoSceneKey) => (created_objects = 0 /\ pc \in {"start", "raised"})
        /\ (BadPaths /\ pc # "start") => (pc = "raised" /\ result = "FileNotFoundError")
        /\ (NoSceneKey /\ pc # "start") => (pc = "raised" /\ result = "ValueError")
        /\ pc = "raised" => created_objects = 0

\* a file of a house with meshes but without the "scene" key has been rejected
C8_Witness ==
    /\ InFront3D
    /\ NoSceneKey /\ data.meshes > 0
    /\ pc = "raised" /\ result = "ValueError"
    /\ created_objects = 0

-----------------------------------------------------------------------------
(* main_3DFront: the loop over the camera poses *)

\* the poses of a camera file, and the lamps of the scene that qualify at one pose
MaxPoses == 2
MaxLamps == 2

\* max_bounces of the two direct and of the two indirect passes
DirectBounces == 0
IndirectBounces == 200

\* what the scene holds at a pose: a ceiling above the camera, the lamps that the
\* selection of lines 405-414 keeps, and whether add_a_new_light finds a place
PoseInfo == [ceiling : BOOLEAN, lamps : 0..MaxLamps, placed : BOOLEAN]
CameraFiles == UNION {[1..n -> PoseInfo] : n \in 0..MaxPoses}

\* def cal_distance(obj1, obj2), and the arguments of the call of line 202
CalDistanceParameters == 2
CalDistanceArguments == 1

\* get_fit_light_intensity: every path through the function reaches the call
\* of cal_distance of line 202
GetFitLightIntensity ==
    IF CalDistanceArguments # CalDistanceParameters THEN "TypeError" ELSE "intensity"

Render(p, output_key, max_bounces) ==
    [pose |-> p, call |-> "render", output_key |-> output_key, max_bounces |-> max_bounces]
WriteHdf5(p) ==
    [pose |-> p, call |-> "write_hdf5", output_key |-> "data", max_bounces |-> 0]

\* lines 504-555: the four passes and the write of pose p
RenderPasses(p) ==
    << Render(p, "direct_sh", DirectBounces),
       Render(p, "direct", DirectBounces),
       Render(p, "indirect_sh", IndirectBounces),
       Render(p, "indirect", IndirectBounces),
       WriteHdf5(p) >>

InitMain ==
    /\ fn = "main_3DFront"
    /\ pc = "pose"
    /\ result = NoResult
    /\ camera_info \in CameraFiles
    /\ pose = 0
    /\ lights = 0
    /\ new_light = "none"
    /\ rendered = <<>>
    /\ CameraIdle /\ LoadersIdle /\ LightIdle /\ MaterialIdle

\* lines 362-393: the next pose of the file and the ceiling above it; a pose
\* without ceiling is skipped
MainFindCeiling ==
    /\ fn = "main_3DFront"
    /\ pc = "pose"
    /\ IF pose = Len(camera_info)
       THEN Return("done") /\ pose' = pose
       ELSE IF ~camera_info[pose + 1].ceiling
            THEN Continue("pose") /\ pose' = pose + 1
            ELSE Continue("lights") /\ pose' = pose
    /\ UNCHANGED <<fn, camera_info, lights, new_light, rendered, notMain>>

\* lines 400-443: the lamps of the room near the hit position, a new light when
\* there is none; a pose without light is skipped
MainCollectLights ==
    /\ fn = "main_3DFront"
    /\ pc = "lights"
    /\ LET info == camera_info[pose + 1]
           added == info.lamps = 0 /\ info.placed
           count == IF added THEN 1 ELSE info.lamps
       IN /\ new_light' = IF added THEN "new_obj" ELSE "None"
          /\ lights' = count
          /\ IF count = 0
             THEN Continue("pose") /\ pose' = pose + 1
             ELSE Continue("render") /\ pose' = pose
    /\ UNCHANGED <<fn, camera_info, rendered, notMain>>

\* lines 444-576: the point light, the intensity of every light, the four
\* passes, the write and the clean-up
MainRender ==
    /\ fn = "main_3DFront"
    /\ pc = "render"
    /\ IF GetFitLightIntensity = "TypeError"
       THEN /\ Raise("TypeError")
            /\ UNCHANGED <<pose, rendered>>
       ELSE /\ rendered' = rendered \o RenderPasses(pose + 1)
            /\ pose' = pose + 1
            /\ Continue("pose")
    /\ UNCHANGED <<fn, camera_info, lights, new_light, notMain>>

NextMain ==
    \/ MainFindCeiling
    \/ MainCollectLights
    \/ MainRender

SpecMain == InitMain /\ [][NextMain]_vars

InMain == fn = "main_3DFront"

\* the pose has a ceiling above it and at least one light
Renderable(info) == info.ceiling /\ (info.lamps > 0 \/ info.placed)

RECURSIVE ExpectedRenders(_, _)
\* the calls the first k poses of the file are due
ExpectedRenders(info, k) ==
    IF k = 0 THEN <<>>
    ELSE ExpectedRenders(info, k - 1)
         \o (IF Renderable(info[k]) THEN RenderPasses(k) ELSE <<>>)

\* C11: every camera pose with a ceiling above it and at least one light is
\* rendered in exactly four passes, direct_sh, direct, indirect_sh, indirect, the
\* first two with max_bounces 0 and the last two with max_bounces 200, followed
\* by one write_hdf5; a pose without ceiling or without light produces no render
\* and no write.  Between two poses, and at the end, the calls made are exactly
\* those the poses handled so far are due, and the loop is not left by an
\* exception.
C11_Claimed ==
    InMain =>
        /\ pc # "raised"
        /\ pc \in {"pose", "returned"} => rendered = ExpectedRenders(camera_info, pose)
        /\ pc = "returned" => pose = Len(camera_info)

\* what does hold: no render and no write is ever made
MainNothingRendered == InMain => rendered = <<>>

-----------------------------------------------------------------------------
(* main_3DFront: add_a_new_light *)

\* the tries of the two sampling loops and of the lowering loop
NearTries == 1000
CentreTries == 1000
LowerSteps == 100
\* the 0.3 by which the light is raised at the end, in steps of 0.01
LiftSteps == 30

\* a sample of disk: whether it lies inside the camera frustum, whether a ceiling
\* of the room is above it, and whether new_obj is free of the objects that are
\* no ceiling when it is put there at the height location_z
Samples == [frustum : BOOLEAN, above : BOOLEAN, free : BOOLEAN]

\* a call of check_intersections: the objects new_obj was checked against, where
\* it stood, z steps of 0.01 above the first location_z, and what was reported
Intersection(against, where, z, free) ==
    [against |-> against, where |-> where, z |-> z, free |-> free]

\* lines 58-60, 89-91: a sample inside the frustum is counted and dropped
TriesAfterFrustumKept(i) == i
TriesAfterFrustum(i) == i + 1

\* lines 63-73, 92-102: the sample is taken when a ceiling is above it and the
\* check against the other objects reports no collision
Accepted(sample) == ~sample.frustum /\ sample.above /\ sample.free

\* one pass of a sampling loop of at most limit passes; after the last pass
\* without success the loop is left: to the position exhausted, or, when that
\* is "None", the light is deleted and None is returned
LightSample(limit, exhausted, sample) ==
    LET checked == ~sample.frustum /\ sample.above
        i == IF sample.frustum THEN TriesAfterFrustum(tries) ELSE tries + 1
        left == ~Accepted(sample) /\ i = limit
    IN /\ location' = sample
       /\ no_collision' = Accepted(sample)
       /\ lowered' = lowered
       /\ tries' = IF Accepted(sample) \/ left THEN 0 ELSE i
       /\ intersections' =
              IF checked
              THEN intersections \cup {Intersection("other_obj", sample, 0, sample.free)}
              ELSE intersections
       /\ light_at' =
              IF left /\ exhausted = "None" THEN NoLight
              ELSE IF checked THEN [where |-> sample, z |-> 0]
              ELSE light_at
       /\ IF Accepted(sample) THEN Continue("lower")
          ELSE IF ~left THEN Continue(pc)
          ELSE IF exhausted = "None" THEN Return("None")
          ELSE Continue(exhausted)

InitLight ==
    /\ fn = "add_a_new_light"
    /\ pc = "near"
    /\ result = NoResult
    /\ LightIdle
    /\ CameraIdle /\ LoadersIdle /\ MainIdle /\ MaterialIdle

\* lines 50-79: a position around the hit location of the camera's axis
LightSampleNear ==
    /\ fn = "add_a_new_light"
    /\ pc = "near"
    /\ \E sample \in Samples : LightSample(NearTries, "centre", sample)
    /\ UNCHANGED <<fn, notLight>>

\* lines 81-113: a position around the centre of the highest ceiling; when none
\* is found the light is deleted and None is returned
LightSampleCentre ==
    /\ fn = "add_a_new_light"
    /\ pc = "centre"
    /\ \E sample \in Samples : LightSample(CentreTries, "None", sample)
    /\ UNCHANGED <<fn, notLight>>

\* lines 117-130: the light is lowered until it is free of the ceilings
LightLower ==
    /\ fn = "add_a_new_light"
    /\ pc = "lower"
    /\ \E free \in BOOLEAN :
          /\ light_at' = [where |-> location, z |-> 0 - lowered]
          /\ intersections' = intersections \cup
                 {Intersection("ceils", location, 0 - lowered, free)}
          /\ no_collision' = free
          /\ IF free
             THEN /\ UNCHANGED <<tries, lowered>>
                  /\ Continue("place")
             ELSE /\ lowered' = lowered + 1
                  /\ tries' = tries + 1
                  /\ IF tries + 1 = LowerSteps
                     THEN Return("None")
                     ELSE Continue("lower")
    /\ UNCHANGED <<fn, location, notLight>>

\* lines 133-141: the light is put 0.3 above the height found and returned
LightPlace ==
    /\ fn = "add_a_new_light"
    /\ pc = "place"
    /\ light_at' = [where |-> location, z |-> LiftSteps - lowered]
    /\ Return("new_obj")
    /\ UNCHANGED <<fn, tries, location, no_collision, lowered, intersections,
                   notLight>>

NextLight ==
    \/ LightSampleNear
    \/ LightSampleCentre
    \/ LightLower
    \/ LightPlace

SpecLight == InitLight /\ [][NextLight]_vars /\ WF_vars(NextLight)

InLight == fn = "add_a_new_light"

\* the light returned
LightReturned == InLight /\ pc = "returned" /\ result = "new_obj"

\* check_intersections reported no collision with the objects named for the
\* place where the light stands
ReportedFree(against) ==
    Intersection(against, light_at.where, light_at.z, TRUE) \in intersections

\* C12: a light returned by add_a_new_light stands at a position the collision
\* check validated: check_intersections reported no collision with the objects
\* that are no ceiling and none with the ceilings for the very location where the
\* light stands at the end, and that location is outside the camera frustum and
\* under a ceiling of the room.
C12_Claimed ==
    LightReturned =>
        /\ ReportedFree("other_obj")
        /\ ReportedFree("ceils")
        /\ ~light_at.where.frustum
        /\ light_at.where.above

\* what does hold: the sample the light stands over was validated at the height
\* it had before it was raised
LightSampleValidated ==
    LightReturned =>
        /\ Accepted(light_at.where)
        /\ Intersection("other_obj", light_at.where, 0, TRUE) \in intersections
        /\ Intersection("ceils", light_at.where, light_at.z - LiftSteps, TRUE)
               \in intersections

\* the light returned stands at a height for which the check against the
\* ceilings reported a collision
LightStandsInCeiling ==
    /\ LightReturned
    /\ Intersection("ceils", light_at.where, light_at.z, FALSE) \in intersections

\* some sample has been taken so far
SomeAccepted ==
    \E c \in intersections : c.against = "other_obj" /\ c.free

\* where the loops stand
C13_Order ==
    InLight =>
        /\ pc = "near" => tries < NearTries /\ ~SomeAccepted /\ lowered = 0
        /\ pc = "centre" => tries < CentreTries /\ ~SomeAccepted /\ lowered = 0
        /\ pc = "lower" => tries < LowerSteps
        /\ pc \in {"lower", "place"} => Accepted(location) /\ SomeAccepted
        /\ lowered > 0 => Accepted(location)
        /\ lowered = IF pc \in {"lower", "place"} THEN tries ELSE lowered
        /\ lowered <= LowerSteps
        /\ no_collision => ~location.frustum

\* how one pass moves them
C13_Pass ==
    InLight =>
        /\ (pc \in {"near", "centre"} /\ pc' = pc) =>
               tries' = tries + 1 /\ ~Accepted(location')
        /\ (pc = "near" /\ pc' = "centre") =>
               tries = NearTries - 1 /\ tries' = 0 /\ ~Accepted(location')
        /\ (pc = "centre" /\ pc' = "returned") =>
               tries = CentreTries - 1 /\ result' = "None" /\ ~Accepted(location')
        /\ (pc \in {"near", "centre"} /\ pc' = "lower") =>
               Accepted(location') /\ tries' = 0
        /\ (pc \in {"near", "centre"} /\ location'.frustum) => pc' # "lower"
        /\ (pc = "lower" /\ pc' = "lower") =>
               lowered' = lowered + 1 /\ tries' = tries + 1
        /\ (pc = "lower" /\ pc' = "returned") =>
               tries = LowerSteps - 1 /\ result' = "None"

\* C13: add_a_new_light always terminates and tries its strategies in a fixed
\* order: at most 1000 samples around the hit location of the camera; at most
\* 1000 samples around the centre of the highest ceiling, only after all of the
\* first were refused; at most 100 steps that lower the light, only after a
\* sample was accepted.  Every sample that is refused counts as a try, one
\* inside the camera frustum included, and such a sample is never accepted.
C13_TerminatesInOrder ==
    /\ [](C13_Order)
    /\ [][C13_Pass]_vars
    /\ (InLight => <>(pc = "returned"))

\* both sampling loops were exhausted, the last sample inside the frustum, and
\* None was returned
C13_Witness ==
    /\ InLight
    /\ pc = "returned" /\ result = "None"
    /\ lowered = 0 /\ ~SomeAccepted
    /\ location.frustum
    /\ light_at = NoLight

-----------------------------------------------------------------------------
(* Material.make_emissive and Material.remove_emissive *)

\* the calls of the methods that are followed
MaxMethods == 3

\* the nodes every material starts with, and the image texture some have
OutputNode == 1
PrincipledNode == 2
TextureNode == 3

Node(id, type, created_in_func) ==
    [id |-> id, type |-> type, created_in_func |-> created_in_func]
Link(from_node, from_socket, to_node, to_socket) ==
    [from_node |-> from_node, from_socket |-> from_socket,
     to_node |-> to_node, to_socket |-> to_socket]

SurfaceLink == Link(PrincipledNode, "BSDF", OutputNode, "Surface")
TextureLink == Link(TextureNode, "Color", PrincipledNode, "Base Color")

\* the materials the methods are called on
Materials ==
    {[nodes |-> {Node(OutputNode, "ShaderNodeOutputMaterial", ""),
                 Node(PrincipledNode, "ShaderNodeBsdfPrincipled", "")}
                \cup (IF textured THEN {Node(TextureNode, "ShaderNodeTexImage", "")}
                      ELSE {}),
      links |-> (IF linked THEN {SurfaceLink} ELSE {})
                \cup (IF textured THEN {TextureLink} ELSE {})] :
        textured \in BOOLEAN, linked \in BOOLEAN}

\* bpy: links.new; an input socket holds one link, the new link takes its place
NewLink(ls, l) ==
    {k \in ls : ~(k.to_node = l.to_node /\ k.to_socket = l.to_socket)} \cup {l}

\* bpy: nodes.remove; the links of a removed node go with it
RemoveNodes(mat, ids) ==
    [nodes |-> {n \in mat.nodes : n.id \notin ids},
     links |-> {k \in mat.links : k.from_node \notin ids /\ k.to_node \notin ids}]

\* get_nodes_created_in_func
NodesCreatedIn(mat, func) == {n.id : n \in {m \in mat.nodes : m.created_in_func = func}}

\* get_nodes_with_type("BsdfPrincipled")[0]: the first such node of the tree
FirstPrincipled(mat) ==
    LET ids == {n.id : n \in {m \in mat.nodes : m.type = "ShaderNodeBsdfPrincipled"}}
    IN CHOOSE id \in ids : \A other \in ids : id <= other

\* insert_node_instead_existing_link: before, source -> dest; after,
\* source -> new_dest and new_source -> dest
InsertNodeInsteadExistingLink(ls, source, new_dest, new_source, dest) ==
    LET cut == {k \in ls :
                   ~(k.from_node = source.node /\ k.from_socket = source.socket
                     /\ k.to_node = dest.node /\ k.to_socket = dest.socket)}
        first == NewLink(cut, Link(source.node, source.socket,
                                   new_dest.node, new_dest.socket))
    IN NewLink(first, Link(new_source.node, new_source.socket, dest.node, dest.socket))

\* remove_emissive, lines 187-191
RemoveEmissive(mat) == RemoveNodes(mat, NodesCreatedIn(mat, "make_emissive"))

\* remove_transparent, lines 172-181
RemoveTransparent(mat) ==
    LET removed == RemoveNodes(mat, NodesCreatedIn(mat, "make_transparent"))
    IN [removed EXCEPT !.links = NewLink(@, Link(FirstPrincipled(removed), "BSDF",
                                                 OutputNode, "Surface"))]

\* make_emissive, lines 415-478; id is the first free node id and coloured
\* tells that an emission_color is given
MakeEmissive(mat, id, replace, coloured) ==
    LET cleared == RemoveEmissive(mat)
        mix_node == id
        light_path_node == id + 1
        emission_node_bsdf == IF replace THEN id ELSE id + 2
        mixed ==
            IF replace THEN cleared
            ELSE [nodes |-> cleared.nodes
                     \cup {Node(mix_node, "ShaderNodeMixShader", "make_emissive"),
                           Node(light_path_node, "ShaderNodeLightPath", "make_emissive")},
                  links |-> NewLink(
                     InsertNodeInsteadExistingLink(cleared.links,
                         [node |-> FirstPrincipled(cleared), socket |-> "BSDF"],
                         [node |-> mix_node, socket |-> "2"],
                         [node |-> mix_node, socket |-> "Shader"],
                         [node |-> OutputNode, socket |-> "Surface"]),
                     Link(light_path_node, "Is Camera Ray", mix_node, "Fac"))]
        output_socket ==
            IF replace THEN [node |-> OutputNode, socket |-> "Surface"]
            ELSE [node |-> mix_node, socket |-> "1"]
        with_emission ==
            [mixed EXCEPT !.nodes = @ \cup {Node(emission_node_bsdf,
                                                 "ShaderNodeBsdfPrincipled",
                                                 "make_emissive")}]
        principled_bsdf == FirstPrincipled(with_emission)
        base_color == {k \in with_emission.links :
                          k.to_node = principled_bsdf /\ k.to_socket = "Base Color"}
        coloured_links ==
            IF ~coloured /\ base_color # {}
            THEN LET k == CHOOSE c \in base_color : TRUE
                 IN NewLink(with_emission.links,
                            Link(k.from_node, k.from_socket,
                                 emission_node_bsdf, "Base Color"))
            ELSE with_emission.links
    IN [nodes |-> with_emission.nodes,
        links |-> NewLink(coloured_links,
                          Link(emission_node_bsdf, "BSDF",
                               output_socket.node, output_socket.socket))]

\* the ids make_emissive uses up
NodesOfMakeEmissive(replace) == IF replace THEN 1 ELSE 3

InitMaterial ==
    /\ fn = "Material"
    /\ pc = "ready"
    /\ result = NoResult
    /\ \E mat \in Materials : nodes = mat.nodes /\ links = mat.links
    /\ next_node = TextureNode + 1
    /\ before = NoMaterial
    /\ history = <<>>
    /\ CameraIdle /\ LoadersIdle /\ MainIdle /\ LightIdle

Material == [nodes |-> nodes, links |-> links]

MakeEmissiveCall ==
    /\ fn = "Material"
    /\ Len(history) < MaxMethods
    /\ \E replace \in BOOLEAN, coloured \in BOOLEAN :
          LET mat == MakeEmissive(Material, next_node, replace, coloured)
          IN /\ nodes' = mat.nodes
             /\ links' = mat.links
             /\ next_node' = next_node + NodesOfMakeEmissive(replace)
             /\ history' = Append(history, IF replace THEN "make_emissive(replace=True)"
                                           ELSE "make_emissive(replace=False)")
    /\ before' = Material
    /\ UNCHANGED <<fn, pc, result, notMaterial>>

RemoveEmissiveCall ==
    /\ fn = "Material"
    /\ Len(history) < MaxMethods
    /\ LET mat == RemoveEmissive(Material)
       IN nodes' = mat.nodes /\ links' = mat.links
    /\ history' = Append(history, "remove_emissive")
    /\ UNCHANGED <<fn, pc, result, next_node, before, notMaterial>>

RemoveTransparentCall ==
    /\ fn = "Material"
    /\ Len(history) < MaxMethods
    /\ LET mat == RemoveTransparent(Material)
       IN nodes' = mat.nodes /\ links' = mat.links
    /\ history' = Append(history, "remove_transparent")
    /\ UNCHANGED <<fn, pc, result, next_node, before, notMaterial>>

NextMaterial ==
    \/ MakeEmissiveCall
    \/ RemoveEmissiveCall
    \/ RemoveTransparentCall

SpecMaterial == InitMaterial /\ [][NextMaterial]_vars

InMaterial == fn = "Material"

\* the principled shader of the material is linked to the material output
PrincipledLinked(mat) == SurfaceLink \in mat.links

\* remove_emissive has just followed a make_emissive without replace, called on
\* a material whose principled shader was linked to the output
RoundTripDone ==
    /\ InMaterial
    /\ Len(history) >= 2
    /\ history[Len(history)] = "remove_emissive"
    /\ history[Len(history) - 1] = "make_emissive(replace=False)"
    /\ PrincipledLinked(before)

\* C14: make_emissive (replace False) followed by remove_emissive is a round
\* trip: a material whose principled shader was linked to the material output
\* has the same nodes as before and its principled shader linked to the output
\* again.
C14_Claimed ==
    RoundTripDone =>
        /\ nodes = before.nodes
        /\ PrincipledLinked(Material)

\* what does hold: the nodes are those of before, and the links are those of
\* before except the one from the principled shader to the output
C14_NodesRestored ==
    RoundTripDone =>
        /\ nodes = before.nodes
        /\ links = before.links \ {SurfaceLink}

\* the clean-up of the camera loop, remove_transparent and then remove_emissive,
\* does restore the material
CleanUpRestores ==
    ( /\ InMaterial
      /\ history = <<"make_emissive(replace=False)", "remove_transparent",
                     "remove_emissive">>
      /\ PrincipledLinked(before) )
    => (nodes = before.nodes /\ links = before.links)

-----------------------------------------------------------------------------
(* Every function *)

Init ==
    \/ InitObstacle
    \/ InitVisible
    \/ InitCoverage
    \/ InitInterest
    \/ InitLoader
    \/ InitFront3D
    \/ InitMain
    \/ InitLight
    \/ InitMaterial

Next ==
    \/ NextObstacle
    \/ NextVisible
    \/ NextCoverage
    \/ NextInterest
    \/ NextLoader
    \/ NextFront3D
    \/ NextMain
    \/ NextLight
    \/ NextMaterial

Spec == Init /\ [][Next]_vars
====
